---- MODULE Spec2Model ----
(***************************************************************************)
(* Model of jeremym-fastapi-example: the external router's handlers        *)
(* (get_index, get_greeting, get_schema), the fetch_data helper and the    *)
(* process-wide Config.  A remote document host answers the outbound GETs. *)
(***************************************************************************)
EXTENDS Integers, Sequences, FiniteSets, TLC

\* Number of handler invocations that can be in flight at the same time.
MaxReqs == 2

Reqs == 1..MaxReqs

\* Values of the ``name`` query parameter.
Names == {"dp02", "nope"}

\* Values the environment can give Config.name (config.py:15, env override).
AppNames == {"jeremym-fastapi-example", "other-app"}

-----------------------------------------------------------------------------
\* Documents the remote host can serve.  A text is a sequence of lines; each
\* line is a "key: value" entry, a plain scalar, or a line that YAML rejects.

KV(k, v)  == [form |-> "kv", k |-> k, v |-> v]
Plain(v)  == [form |-> "plain", k |-> "", v |-> v]
BadLine   == [form |-> "bad", k |-> "", v |-> "[dp02"]

ValidDoc     == << KV("name", "dp02"), KV("@id", "#dp02"), KV("tables", "[]") >>
ValidDocDesc == << KV("description", "DP0.2"), KV("tables", "[]"),
                   KV("@id", "#dp02"), KV("name", "dp02") >>
MissingDoc   == << KV("name", "dp02") >>
NotFoundDoc  == << KV("404", "Not Found") >>
MalformedDoc == << KV("name", "dp02"), BadLine >>
ScalarDoc    == << Plain("hello") >>

\* What the remote host can answer to one GET: a transport-level failure
\* (httpx.RequestError) or an HTTP response with any status code.
TransportError == [transport |-> "error", status |-> 0, text |-> << >>]
Response(s, t) == [transport |-> "ok", status |-> s, text |-> t]

Answers == { TransportError,
             Response(200, ValidDoc),
             Response(500, ValidDocDesc),
             Response(404, NotFoundDoc),
             Response(200, MalformedDoc),
             Response(200, MissingDoc),
             Response(200, ScalarDoc) }

-----------------------------------------------------------------------------
\* yaml.safe_load

Digits == {"404", "1"}

\* A parsed node: scalar nodes carry lit, mappings carry items, a sequence
\* of <<key node, value node>> pairs.
Node(ty, lit, items) == [ty |-> ty, lit |-> lit, items |-> items]
NoneNode == Node("none", "", << >>)

\* Implicit tag resolution of one scalar token.
Resolve(tok) ==
    IF tok \in Digits THEN Node("int", tok, << >>)
    ELSE IF tok = "[]" THEN Node("list", tok, << >>)
    ELSE Node("str", tok, << >>)

\* dict construction: a repeated key keeps its first position and takes the
\* last value.
RECURSIVE BuildMap(_, _)
BuildMap(lines, acc) ==
    IF lines = << >> THEN acc
    ELSE LET l  == Head(lines)
             kn == Resolve(l.k)
             vn == Resolve(l.v)
             at == { i \in 1..Len(acc) : acc[i][1] = kn }
         IN  IF at = {}
             THEN BuildMap(Tail(lines), Append(acc, <<kn, vn>>))
             ELSE BuildMap(Tail(lines),
                           [i \in 1..Len(acc) |->
                               IF i \in at THEN <<kn, vn>> ELSE acc[i]])

\* Result of yaml.safe_load(text): err is TRUE when yaml.YAMLError is raised.
safe_load(text) ==
    IF \E i \in 1..Len(text) : text[i].form = "bad"
        THEN [err |-> TRUE, node |-> NoneNode]
    ELSE IF text = << >>
        THEN [err |-> FALSE, node |-> NoneNode]
    ELSE IF \A i \in 1..Len(text) : text[i].form = "kv"
        THEN [err |-> FALSE, node |-> Node("map", "", BuildMap(text, << >>))]
    ELSE IF Len(text) = 1
        THEN [err |-> FALSE, node |-> Resolve(text[1].v)]
    ELSE [err |-> TRUE, node |-> NoneNode]

-----------------------------------------------------------------------------
\* What a handler or helper call ends with: a returned value or an exception.
\* value is a sequence of <<field, node>> pairs, text a fetched document.

Return(value, text) ==
    [exc |-> "", status_code |-> 0, detail |-> "", errors |-> {},
     value |-> value, text |-> text]

Raise(exc, status_code, detail, errors) ==
    [exc |-> exc, status_code |-> status_code, detail |-> detail,
     errors |-> errors, value |-> << >>, text |-> << >>]

-----------------------------------------------------------------------------
\* felis.datamodel.Schema, as far as Schema(**data) is concerned: the fields
\* in declaration order, the required ones, and the type each one accepts.
\* Unknown fields are rejected.

SchemaFields   == << "name", "@id", "description", "tables" >>
RequiredFields == { "name", "@id", "tables" }
FieldType(f)   == IF f = "tables" THEN "list" ELSE "str"

FieldSet == { SchemaFields[i] : i \in 1..Len(SchemaFields) }

\* The value a mapping node holds for a string key (NoneNode when absent).
Lookup(items, key) ==
    LET at == { i \in 1..Len(items) : items[i][1] = Node("str", key, << >>) }
    IN  IF at = {} THEN NoneNode ELSE items[CHOOSE i \in at : TRUE][2]

\* Schema(**data)
SchemaCall(data) ==
    IF data.ty /= "map"
        THEN Raise("TypeError", 0, "argument after ** must be a mapping", {})
    ELSE IF \E i \in 1..Len(data.items) : data.items[i][1].ty /= "str"
        THEN Raise("TypeError", 0, "keywords must be strings", {})
    ELSE
        LET keys    == { data.items[i][1].lit : i \in 1..Len(data.items) }
            missing == RequiredFields \ keys
            extra   == keys \ FieldSet
            invalid == { f \in keys \cap FieldSet :
                            Lookup(data.items, f).ty /= FieldType(f) }
            errors  == missing \cup extra \cup invalid
        IN  IF errors /= {}
                THEN Raise("ValidationError", 0, "validation errors for Schema",
                           errors)
            ELSE Return([i \in 1..Len(SchemaFields) |->
                            << SchemaFields[i],
                               Lookup(data.items, SchemaFields[i]) >>], << >>)

-----------------------------------------------------------------------------
\* FastAPI / Starlette: how the route decorators turn what a handler ends
\* with into the HTTP response.

HttpResponse(status, json, body) ==
    [status |-> status, json |-> json, body |-> body]

NoResponse == HttpResponse(0, << >>, "")

\* response_model serialization; exclude_none drops the unset fields.
RECURSIVE Serialize(_, _)
Serialize(value, exclude_none) ==
    IF value = << >> THEN << >>
    ELSE IF exclude_none /\ Head(value)[2].ty = "none"
        THEN Serialize(Tail(value), exclude_none)
    ELSE << Head(value) >> \o Serialize(Tail(value), exclude_none)

\* A returned value is a 200, an HTTPException its own status code and
\* detail, any other exception the server-error middleware's 500.
AsgiResponse(out, exclude_none) ==
    IF out.exc = ""
        THEN HttpResponse(200, Serialize(out.value, exclude_none), "")
    ELSE IF out.exc = "HTTPException"
        THEN HttpResponse(out.status_code,
                          << << "detail", Node("str", out.detail, << >>) >> >>,
                          "")
    ELSE HttpResponse(500, << >>, "Internal Server Error")

-----------------------------------------------------------------------------
\* The handlers' code as functions of their inputs.

\* schema_url = f"https://.../yml/{name}.yaml"
schema_url(name) ==
    "https://raw.githubusercontent.com/lsst/sdm_schemas/main/yml/"
        \o name \o ".yaml"

Urls == { schema_url(n) : n \in Names }

NotFoundDetail(url) == "URL not found\n" \o url

\* Variant: yaml.YAMLError is caught by the except clause as well.
get_schema_body_catch_yaml(url, answer) ==
    IF answer.transport = "error"
        THEN Raise("HTTPException", 404, NotFoundDetail(url), {})
    ELSE LET loaded == safe_load(answer.text)
         IN  IF loaded.err
                 THEN Raise("HTTPException", 404, NotFoundDetail(url), {})
             ELSE SchemaCall(loaded.node)

\* Variant: response.raise_for_status() inside the try block.
get_schema_body_raise_for_status(url, answer) ==
    IF answer.transport = "error" \/ answer.status >= 400
        THEN Raise("HTTPException", 404, NotFoundDetail(url), {})
    ELSE LET loaded == safe_load(answer.text)
         IN  IF loaded.err
                 THEN Raise("YAMLError", 0, "could not parse the document", {})
             ELSE SchemaCall(loaded.node)

\* get_schema from the return of ``await http_client.get(schema_url)`` on:
\* the except clause, yaml.safe_load(response.text) and Schema(**data).
get_schema_body(url, answer) ==
    IF answer.transport = "error"
        THEN Raise("HTTPException", 404, NotFoundDetail(url), {})
    ELSE LET loaded == safe_load(answer.text)
         IN  IF loaded.err
                 THEN Raise("YAMLError", 0, "could not parse the document", {})
             ELSE SchemaCall(loaded.node)

\* fetch_data(schema_url), given the answer its own client's GET got.
fetch_data(url, answer) ==
    IF answer.transport = "error"
        THEN Raise("HTTPException", 200, NotFoundDetail(url), {})
    ELSE Return(<< >>, answer.text)

\* The distribution metadata get_metadata reads for package_name: version,
\* summary and project URLs of the installed package.
PackageMetadata ==
    [version           |-> "0.1.0",
     description       |-> "Example FastAPI application",
     repository_url    |-> "https://github.com/lsst-dm/jeremym-fastapi-example",
     documentation_url |-> "https://jeremym-fastapi-example.lsst.io"]

Str(s) == Node("str", s, << >>)

\* Variant: application_name is the package name, not config.name.
get_index_package_name(cfg) ==
    Return(<< << "metadata",
                 Node("map", "",
                      << << Str("name"), Str("jeremym-fastapi-example") >>,
                         << Str("version"), Str(PackageMetadata.version) >>,
                         << Str("description"),
                            Str(PackageMetadata.description) >>,
                         << Str("repository_url"),
                            Str(PackageMetadata.repository_url) >>,
                         << Str("documentation_url"),
                            Str(PackageMetadata.documentation_url) >> >>) >> >>,
           << >>)

\* get_index: Index(metadata=get_metadata(package_name=...,
\* application_name=config.name)).
get_index(cfg) ==
    Return(<< << "metadata",
                 Node("map", "",
                      << << Str("name"), Str(cfg.name) >>,
                         << Str("version"), Str(PackageMetadata.version) >>,
                         << Str("description"),
                            Str(PackageMetadata.description) >>,
                         << Str("repository_url"),
                            Str(PackageMetadata.repository_url) >>,
                         << Str("documentation_url"),
                            Str(PackageMetadata.documentation_url) >> >>) >> >>,
           << >>)

\* get_greeting
get_greeting == Return(<< << "", Str("Hello, SQuaRE Services Bootcamp!") >> >>,
                       << >>)

-----------------------------------------------------------------------------
VARIABLES
    config,      \* the module-level Config instance
    remote,      \* what the document host answers for each URL right now
    pc,          \* per invocation of get_schema: "idle", "await" or "done"
    name,        \* its name parameter
    url,         \* its local schema_url
    gets,        \* outbound GETs it has issued
    answer,      \* what its ``await http_client.get`` ended with
    outcome,     \* what the handler ended with
    resp,        \* HTTP response sent for it
    last         \* the latest call of get_index, get_greeting or fetch_data

vars == << config, remote, pc, name, url, gets, answer, outcome, resp, last >>

NoOutcome == Return(<< >>, << >>)
NoCall    == [op |-> "none", arg |-> "", out |-> NoOutcome, resp |-> NoResponse]

Init ==
    /\ config \in [name : AppNames]
    /\ remote \in [Urls -> Answers]
    /\ pc = [r \in Reqs |-> "idle"]
    /\ name = [r \in Reqs |-> ""]
    /\ url = [r \in Reqs |-> ""]
    /\ gets = [r \in Reqs |-> 0]
    /\ answer = [r \in Reqs |-> TransportError]
    /\ outcome = [r \in Reqs |-> NoOutcome]
    /\ resp = [r \in Reqs |-> NoResponse]
    /\ last = NoCall

\* Variant: the URL is built for a fixed schema name.
GetSchemaStartFixedName(r, n) ==
    /\ pc[r] = "idle"
    /\ pc' = [pc EXCEPT ![r] = "await"]
    /\ name' = [name EXCEPT ![r] = n]
    /\ url' = [url EXCEPT ![r] = schema_url("dp02")]
    /\ gets' = [gets EXCEPT ![r] = gets[r] + 1]
    /\ UNCHANGED << config, remote, answer, outcome, resp, last >>

\* GET /schema?name=n arrives: the handler builds the URL, logs, issues the
\* outbound GET on the shared client and suspends.
GetSchemaStart(r, n) ==
    /\ pc[r] = "idle"
    /\ pc' = [pc EXCEPT ![r] = "await"]
    /\ name' = [name EXCEPT ![r] = n]
    /\ url' = [url EXCEPT ![r] = schema_url(n)]
    /\ gets' = [gets EXCEPT ![r] = gets[r] + 1]
    /\ UNCHANGED << config, remote, answer, outcome, resp, last >>

\* The URL some other suspended invocation holds, else r's own.
OtherUrl(r) ==
    LET others == { q \in Reqs : q /= r /\ pc[q] = "await" }
    IN  IF others = {} THEN url[r] ELSE url[CHOOSE q \in others : TRUE]

\* Variant: a failed GET is tried once more before it is reported.
GetSchemaResumeRetry(r) ==
    /\ pc[r] = "await"
    /\ IF remote[url[r]].transport = "error" /\ gets[r] < 2
          THEN /\ gets' = [gets EXCEPT ![r] = gets[r] + 1]
               /\ UNCHANGED << pc, answer, outcome, resp >>
          ELSE /\ LET a   == remote[url[r]]
                      out == get_schema_body(url[r], a)
                  IN  /\ answer' = [answer EXCEPT ![r] = a]
                      /\ outcome' = [outcome EXCEPT ![r] = out]
                      /\ resp' = [resp EXCEPT ![r] = AsgiResponse(out, FALSE)]
               /\ pc' = [pc EXCEPT ![r] = "done"]
               /\ UNCHANGED gets
    /\ UNCHANGED << config, remote, name, url, last >>

\* Variant: schema_url is a module-level variable, so the GET of a resumed
\* invocation goes to the URL another invocation stored last.
GetSchemaResumeSharedUrl(r) ==
    /\ pc[r] = "await"
    /\ LET a   == remote[OtherUrl(r)]
           out == get_schema_body(OtherUrl(r), a)
       IN  /\ answer' = [answer EXCEPT ![r] = a]
           /\ outcome' = [outcome EXCEPT ![r] = out]
           /\ resp' = [resp EXCEPT ![r] = AsgiResponse(out, FALSE)]
    /\ pc' = [pc EXCEPT ![r] = "done"]
    /\ UNCHANGED << config, remote, name, url, gets, last >>

\* Variant: the error detail is formatted from a URL shared between the
\* invocations instead of the handler's own.
GetSchemaResumeSharedDetail(r) ==
    /\ pc[r] = "await"
    /\ LET a   == remote[url[r]]
           out == get_schema_body(OtherUrl(r), a)
       IN  /\ answer' = [answer EXCEPT ![r] = a]
           /\ outcome' = [outcome EXCEPT ![r] = out]
           /\ resp' = [resp EXCEPT ![r] = AsgiResponse(out, FALSE)]
    /\ pc' = [pc EXCEPT ![r] = "done"]
    /\ UNCHANGED << config, remote, name, url, gets, last >>

\* The outbound GET ends (response or transport error); the handler runs to
\* its end and the framework sends the response.
GetSchemaResume(r) ==
    /\ pc[r] = "await"
    /\ LET a   == remote[url[r]]
           out == get_schema_body(url[r], a)
       IN  /\ answer' = [answer EXCEPT ![r] = a]
           /\ outcome' = [outcome EXCEPT ![r] = out]
           /\ resp' = [resp EXCEPT ![r] = AsgiResponse(out, FALSE)]
    /\ pc' = [pc EXCEPT ![r] = "done"]
    /\ UNCHANGED << config, remote, name, url, gets, last >>

\* The invocation is over; its locals are gone.
Finish(r) ==
    /\ pc[r] = "done"
    /\ pc' = [pc EXCEPT ![r] = "idle"]
    /\ name' = [name EXCEPT ![r] = ""]
    /\ url' = [url EXCEPT ![r] = ""]
    /\ gets' = [gets EXCEPT ![r] = 0]
    /\ answer' = [answer EXCEPT ![r] = TransportError]
    /\ outcome' = [outcome EXCEPT ![r] = NoOutcome]
    /\ resp' = [resp EXCEPT ![r] = NoResponse]
    /\ UNCHANGED << config, remote, last >>

\* GET / : response_model=Index, response_model_exclude_none=True.
GetIndex ==
    /\ LET out == get_index(config)
       IN  last' = [op |-> "get_index", arg |-> "",
                    out |-> out, resp |-> AsgiResponse(out, TRUE)]
    /\ UNCHANGED << config, remote, pc, name, url, gets, answer, outcome, resp >>

\* GET /hello
GetGreeting ==
    /\ LET out == get_greeting
       IN  last' = [op |-> "get_greeting", arg |-> "",
                    out |-> out, resp |-> AsgiResponse(out, FALSE)]
    /\ UNCHANGED << config, remote, pc, name, url, gets, answer, outcome, resp >>

\* A call of the fetch_data helper for the URL of n, with its own client.
FetchData(n) ==
    /\ LET u == schema_url(n)
       IN  last' = [op |-> "fetch_data", arg |-> u,
                    out |-> fetch_data(u, remote[u]), resp |-> NoResponse]
    /\ UNCHANGED << config, remote, pc, name, url, gets, answer, outcome, resp >>

\* The document host changes what it serves for a URL, or becomes
\* unreachable or reachable again.
RemoteChange(u, a) ==
    /\ remote[u] /= a
    /\ remote' = [remote EXCEPT ![u] = a]
    /\ UNCHANGED << config, pc, name, url, gets, answer, outcome, resp, last >>

\* Concurrent invocations of get_schema against a changing document host.
Next ==
    \/ \E r \in Reqs, n \in Names : GetSchemaStart(r, n)
    \/ \E r \in Reqs : GetSchemaResume(r)
    \/ \E r \in Reqs : Finish(r)
    \/ \E u \in Urls, a \in Answers : RemoteChange(u, a)

Spec == Init /\ [][Next]_vars

\* Every route of the router and the fetch_data helper, with the get_schema
\* invocations one at a time.
NextService ==
    \/ \E n \in Names : GetSchemaStart(1, n)
    \/ GetSchemaResume(1)
    \/ Finish(1)
    \/ GetIndex
    \/ GetGreeting
    \/ \E n \in Names : FetchData(n)
    \/ \E u \in Urls, a \in Answers : RemoteChange(u, a)

ServiceSpec == Init /\ [][NextService]_vars

-----------------------------------------------------------------------------
\* Properties.

Done(r) == pc[r] = "done"

\* The detail of an error response names the URL u.
NamesUrl(response, u) ==
    /\ Len(response.json) = 1
    /\ response.json[1][1] = "detail"
    /\ response.json[1][2].lit = "URL not found\n" \o u

\* The document is valid YAML (a mapping) in which a required field is absent.
MissingRequired(text) ==
    LET loaded == safe_load(text)
    IN  /\ ~loaded.err
        /\ loaded.node.ty = "map"
        /\ \E f \in RequiredFields : Lookup(loaded.node.items, f) = NoneNode

\* The document parses and Schema construction accepts it.
SchemaValid(text) ==
    LET loaded == safe_load(text)
    IN  /\ ~loaded.err
        /\ SchemaCall(loaded.node).exc = ""

\* The JSON object has a member for every entry of the document, with the
\* entry's value, and every member that is not null is an entry of the document.
DocMatches(json, text) ==
    /\ \A i \in 1..Len(text) :
          \E m \in 1..Len(json) :
              json[m] = << text[i].k, Resolve(text[i].v) >>
    /\ \A m \in 1..Len(json) :
          json[m][2].ty /= "none" =>
              \E i \in 1..Len(text) :
                  json[m] = << text[i].k, Resolve(text[i].v) >>

\* C1: a /schema request, and a fetch_data call, whose GET fails at transport
\* level ends with status 502 and a message naming the attempted URL.
C1_Unreachable502 ==
    /\ \A r \in Reqs :
          (Done(r) /\ answer[r].transport = "error") =>
              /\ resp[r].status = 502
              /\ NamesUrl(resp[r], schema_url(name[r]))
    /\ (last.op = "fetch_data" /\ last.out.exc /= "") =>
          /\ last.out.status_code = 502
          /\ last.out.detail = "URL not found\n" \o last.arg

\* C2: a /schema request whose fetched document is valid YAML missing required
\* schema fields ends with status 422.
C2_MissingFields422 ==
    \A r \in Reqs :
        (Done(r) /\ answer[r].transport = "ok"
                 /\ MissingRequired(answer[r].text)) =>
            resp[r].status = 422

\* C3: a /schema request whose fetched document does not parse as YAML ends
\* with status 500.
C3_MalformedYaml500 ==
    \A r \in Reqs :
        (Done(r) /\ answer[r].transport = "ok"
                 /\ \E i \in 1..Len(answer[r].text) :
                        answer[r].text[i].form = "bad") =>
            resp[r].status = 500

C3_Witness ==
    \E r \in Reqs :
        /\ Done(r)
        /\ answer[r] = Response(200, MalformedDoc)
        /\ outcome[r].exc = "YAMLError"
        /\ resp[r].status = 500

\* C4: the only exception that leaves get_schema is an HTTPException.
C4_OnlyHTTPExceptionLeaves ==
    \A r \in Reqs :
        Done(r) => outcome[r].exc \in {"", "HTTPException"}

\* C5: when the URL built from a request's own name serves a schema-valid
\* document, the request ends with status 200 and a JSON body matching that
\* document.
C5_ValidDocument200 ==
    [][ \A r \in Reqs :
          (pc[r] = "await" /\ pc'[r] = "done") =>
              LET a == remote["https://raw.githubusercontent.com/lsst/sdm_schemas/main/yml/"
                              \o name[r] \o ".yaml"]
              IN  (a.transport = "ok" /\ SchemaValid(a.text)) =>
                      /\ resp'[r].status = 200
                      /\ DocMatches(resp'[r].json, a.text) ]_vars

C5_Witness ==
    \E r \in Reqs :
        /\ Done(r)
        /\ name[r] = "nope"
        /\ answer[r] = Response(500, ValidDocDesc)
        /\ remote[schema_url("dp02")] = TransportError
        /\ resp[r].status = 200
        /\ Len(resp[r].json) = 4

\* C6: every /schema request issues exactly one outbound GET, and a failed
\* GET is reported on that same request.
C6_OneGetPerRequest ==
    \A r \in Reqs :
        /\ pc[r] = "idle" => gets[r] = 0
        /\ pc[r] \in {"await", "done"} => gets[r] = 1
        /\ (Done(r) /\ answer[r].transport = "error") =>
              /\ outcome[r].exc = "HTTPException"
              /\ resp[r].status /= 200

C6_Witness ==
    \E r, q \in Reqs :
        /\ r /= q
        /\ Done(r) /\ Done(q)
        /\ name[r] = name[q]
        /\ answer[r].transport = "error"
        /\ answer[q].transport = "ok"
        /\ gets[r] = 1 /\ gets[q] = 1

\* C7: the response of each /schema request is a function of its own name and
\* of the remote host's answer for its own URL; a handler step changes
\* neither the configuration nor another invocation's locals or response.
C7_RequestIsolation ==
    [][ /\ config' = config
        /\ \A r \in Reqs :
              (pc[r] = "await" /\ pc'[r] = "done") =>
                  LET u == schema_url(name[r])
                  IN  /\ answer'[r] = remote[u]
                      /\ resp'[r] =
                            AsgiResponse(get_schema_body(u, remote[u]), FALSE)
                      /\ \A q \in Reqs \ {r} :
                            /\ name'[q] = name[q]
                            /\ url'[q] = url[q]
                            /\ answer'[q] = answer[q]
                            /\ resp'[q] = resp[q] ]_vars

C7_Witness ==
    \E r, q \in Reqs :
        /\ Done(r) /\ Done(q)
        /\ name[r] /= name[q]
        /\ resp[r].status = 200
        /\ resp[q].status = 404

\* C8: two /schema requests with the same name that got the same answer from
\* the remote host have identical responses.
C8_Idempotent ==
    \A r, q \in Reqs :
        (Done(r) /\ Done(q) /\ name[r] = name[q] /\ answer[r] = answer[q]) =>
            resp[r] = resp[q]

C8_Witness ==
    \E r, q \in Reqs :
        /\ r /= q
        /\ Done(r) /\ Done(q)
        /\ name[r] = name[q]
        /\ answer[r] = answer[q]
        /\ answer[r] = TransportError
        /\ remote[url[r]] /= TransportError

\* C9: GET / ends with status 200 and a metadata object whose name is
\* config.name and whose version, description, repository_url and
\* documentation_url are strings; get_index raises nothing.
C9_IndexAlways200 ==
    last.op = "get_index" =>
        /\ last.out.exc = ""
        /\ last.resp.status = 200
        /\ Len(last.resp.json) = 1
        /\ last.resp.json[1][1] = "metadata"
        /\ LET md == last.resp.json[1][2].items
           IN  /\ Lookup(md, "name") = Str(config.name)
               /\ \A f \in {"version", "description", "repository_url",
                            "documentation_url"} :
                      Lookup(md, f).ty = "str"

C9_Witness ==
    /\ last.op = "get_index"
    /\ last.resp.status = 200
    /\ config.name = "other-app"
    /\ Done(1)
    /\ resp[1].status = 500

\* C10: once the GET returned a response, the body is parsed and handed to
\* Schema construction whatever the remote status code; the handler's
\* URL-not-found error is never raised for it.
C10_StatusNotInspected ==
    \A r \in Reqs :
        (Done(r) /\ answer[r].transport = "ok") =>
            /\ outcome[r].exc /= "HTTPException"
            /\ resp[r].status /= 404
            /\ LET loaded == safe_load(answer[r].text)
               IN  IF loaded.err THEN outcome[r].exc = "YAMLError"
                   ELSE outcome[r] = SchemaCall(loaded.node)

C10_Witness ==
    \E r, q \in Reqs :
        /\ Done(r) /\ Done(q)
        /\ answer[r] = Response(500, ValidDocDesc)
        /\ resp[r].status = 200
        /\ answer[q] = Response(404, NotFoundDoc)
        /\ outcome[q].exc = "TypeError"

====
